---- MODULE Spec2Model ----
(***************************************************************************)
(* TP-Link Kasa smart-plug scripts: the XOR-autokey codec                  *)
(* (tplink_protocol.py), the TCP transport client send_command, the device *)
(* facade KasaDevice and UDP discovery (kasa_controller.py), and the       *)
(* command-line dispatcher main (kasa_api.py).                             *)
(*                                                                         *)
(* A Python str is modelled as the sequence of its code points and a bytes *)
(* object as the sequence of its byte values.                              *)
(***************************************************************************)
EXTENDS Integers, Sequences, FiniteSets, TLC

VARIABLES
    \* codec (tplink_protocol.py: encrypt, decrypt)
    plain,      \* the str handed to encrypt
    frame,      \* the bytes encrypt returned
    decoded,    \* the str decrypt returned for the frame's body
    cstep,      \* "input" | "encrypted" | "decrypted" | "garbled" | "unused"
    garbled,    \* the frame's body with one byte changed in transit
    garbledAt,  \* the position of the changed byte, from 1; 0 before
    garbledDecoded, \* the str decrypt returned for the garbled body
    \* one run of kasa_api.py main
    argv,       \* sys.argv
    pc,         \* where main is: "start", a label inside a branch, "exit"
    stdout,     \* the lines print has written, in order
    exitcode,   \* the process exit status once pc = "exit"; -1 before
    current,    \* toggle: what the first get_state returned
    result,     \* the branch's local result
    calls,      \* the calls of send_command made, in order: the command, the
                \* network's behaviour, what send_command did
    leaked,     \* the sockets send_command created and did not close
    \* the peer at ip:9999
    relay,      \* the plug's relay: 0 off, 1 on
    \* one call of discover_devices
    dpc,        \* where discover_devices is: "idle", "socket", "bind", "send",
                \* "listen", "close", "done"
    timeout,    \* its argument, in seconds
    sock,       \* its UDP socket: "none", "open", "closed"
    bound,      \* the local port bound: "none", "9999", "any"
    round,      \* i of the send loop, 0..5
    target,     \* index of the next broadcast address of this round, 1..8
    attempts,   \* sendto calls made
    sendFailed, \* some sendto raised
    elapsed,    \* time.time() - start_time, in ticks
    broke,      \* the while loop was left through break
    received,   \* the datagrams recvfrom has returned: [addr, len]
    discovered, \* the set discovered
    devices,    \* what discover_devices returned
    \* one call of scan_subnet (scan_network.py)
    spc,        \* where scan_subnet is: "idle", "submit", "collect", "done"
    scanStart,  \* its argument start
    scanEnd,    \* its argument end
    network,    \* what each host does when its port is checked
    nextHost,   \* i of the submit loop
    task,       \* each host's future: "none", "queued", "running", "finished",
                \* "yielded" (as_completed has handed it to the loop)
    checks,     \* how many times check_port was called for each host
    completed,  \* the counter completed
    found,      \* the list found
    waited      \* some task had to wait in the queue, every worker being busy

codecVars == <<plain, frame, decoded, cstep, garbled, garbledAt, garbledDecoded>>
cliVars == <<argv, pc, stdout, exitcode, current, result, calls, leaked>>
discVars == <<dpc, timeout, sock, bound, round, target, attempts, sendFailed, elapsed,
              broke, received, discovered, devices>>
scanVars == <<spc, scanStart, scanEnd, network, nextHost, task, checks, completed, found, waited>>
vars == <<plain, frame, decoded, cstep, garbled, garbledAt, garbledDecoded, argv, pc, stdout, exitcode, current, result,
          calls, leaked, relay, dpc, timeout, sock, bound, round, target,
          attempts, sendFailed, elapsed, broke, received, discovered, devices,
          spc, scanStart, scanEnd, network, nextHost, task, checks, completed, found, waited>>

----------------------------------------------------------------------------
(* Bounds of the model *)

\* longest plaintext built character by character
MaxLen == 3

\* datagrams one call of discover_devices receives at most
MaxDatagrams == 3

\* clock ticks per second
TicksPerSecond == 2

\* the hosts a subnet scan can be asked to check are 1..MaxHosts
MaxHosts == 51

----------------------------------------------------------------------------
(* Python str literals as sequences of code points *)

\* the printable ASCII characters of code points 32..95 and 97..126, in order
\* (code point 96 cannot be written in a string literal here and is not used)
LowChars == " !\"#$%&'()*+,-./0123456789:;<=>?@ABCDEFGHIJKLMNOPQRSTUVWXYZ[\\]^_"

HighChars == "abcdefghijklmnopqrstuvwxyz{|}~"

\* ord(c) of a one-character string
ord(c) ==
    IF \E i \in 1..Len(LowChars) : SubSeq(LowChars, i, i) = c
    THEN 31 + (CHOOSE i \in 1..Len(LowChars) : SubSeq(LowChars, i, i) = c)
    ELSE 96 + (CHOOSE i \in 1..Len(HighChars) : SubSeq(HighChars, i, i) = c)

\* the code points of a str literal
Str(s) == [i \in 1..Len(s) |-> ord(SubSeq(s, i, i))]

----------------------------------------------------------------------------
(* tplink_protocol.py: the codec *)

\* Python's a ^ b on non-negative integers
RECURSIVE Xor(_, _)
Xor(a, b) ==
    IF a = 0 THEN b
    ELSE IF b = 0 THEN a
    ELSE ((a + b) % 2) + 2 * Xor(a \div 2, b \div 2)

\* struct.pack(">I", n): four bytes, most significant first
pack_I(n) ==
    << (n \div 16777216) % 256, (n \div 65536) % 256, (n \div 256) % 256, n % 256 >>

\* the initial key of both loops
InitialKey == 171

\* the for loop of encrypt: a = key ^ ord(char); key = a; result += bytes([a]) (result is out here)
RECURSIVE encryptLoop(_, _, _, _)
encryptLoop(string, i, key, out) ==
    IF i > Len(string) THEN out
    ELSE LET a == Xor(key, string[i])
         IN  encryptLoop(string, i + 1, a, Append(out, a))

encrypt_headerIsFrameLength(string) ==
    encryptLoop(string, 1, InitialKey, pack_I(Len(string) + 4))

encrypt(string) ==
    encryptLoop(string, 1, InitialKey, pack_I(Len(string)))

RECURSIVE decryptLoop_keyIsPlain(_, _, _, _)
decryptLoop_keyIsPlain(data, i, key, out) ==
    IF i > Len(data) THEN out
    ELSE LET a == Xor(key, data[i])
         IN  decryptLoop_keyIsPlain(data, i + 1, a, Append(out, a))

\* the for loop of decrypt: a = key ^ byte; key = byte; result += chr(a) (result is out here)
RECURSIVE decryptLoop(_, _, _, _)
decryptLoop(data, i, key, out) ==
    IF i > Len(data) THEN out
    ELSE LET a == Xor(key, data[i])
         IN  decryptLoop(data, i + 1, data[i], Append(out, a))

decrypt_keyIsPlain(data) == decryptLoop_keyIsPlain(data, 1, InitialKey, <<>>)

decrypt(data) == decryptLoop(data, 1, InitialKey, <<>>)

\* data[n:] of a bytes object
SliceFrom(data, n) == SubSeq(data, n + 1, Len(data))

\* the discovery command literal of discover_devices, also the codec fixture
command == Str("{\"system\":{\"get_sysinfo\":{}}}")

----------------------------------------------------------------------------
(* Python values that json.loads returns and json.dumps accepts.            *)
(* A value is a record [t, v]: t names the Python type, v holds the         *)
(* content. A dict keeps its items in insertion order as a sequence of      *)
(* [k, v] records with distinct keys.                                       *)

PyNone == [t |-> "NoneType", v |-> 0]
PyBool(b) == [t |-> "bool", v |-> b]
PyInt(n) == [t |-> "int", v |-> n]
PyStr(s) == [t |-> "str", v |-> s]
PyList(items) == [t |-> "list", v |-> items]
PyDict(items) == [t |-> "dict", v |-> items]

\* a dict literal with one item, {k: x}
Dict1(k, x) == PyDict(<< [k |-> k, v |-> x] >>)

\* a dict literal with two items, {k1: x1, k2: x2}
Dict2(k1, x1, k2, x2) == PyDict(<< [k |-> k1, v |-> x1], [k |-> k2, v |-> x2] >>)

IsDict(x) == x.t = "dict"

\* k in d, for a dict d
HasKey(d, k) == \E i \in 1..Len(d.v) : d.v[i].k = k

\* d[k], for a dict d that has the key
Lookup(d, k) == d.v[CHOOSE i \in 1..Len(d.v) : d.v[i].k = k].v

\* d[k] = x on a sequence of items: a repeated key keeps its place, takes the new value
SetItem(items, k, x) ==
    IF \E i \in 1..Len(items) : items[i].k = k
    THEN [i \in 1..Len(items) |-> IF items[i].k = k THEN [k |-> k, v |-> x] ELSE items[i]]
    ELSE Append(items, [k |-> k, v |-> x])

----------------------------------------------------------------------------
(* json.loads on a str. The grammar modelled: objects, arrays, strings      *)
(* without escapes, integers, true, false, null, and whitespace between     *)
(* tokens. Fractions, exponents, NaN/Infinity and backslash escapes are not *)
(* modelled; no text of this model contains them.                           *)

Whitespace == {32, 9, 10, 13}
Digits == 48..57

\* the failure of a scan at position i
Fail(i) == [ok |-> FALSE, val |-> PyNone, pos |-> i]
Done(x, i) == [ok |-> TRUE, val |-> x, pos |-> i]

RECURSIVE SkipWs(_, _)
SkipWs(s, i) ==
    IF i <= Len(s) /\ s[i] \in Whitespace THEN SkipWs(s, i + 1) ELSE i

\* s starts with the literal w at position i
StartsWith(s, i, w) ==
    /\ i + Len(w) - 1 <= Len(s)
    /\ SubSeq(s, i, i + Len(w) - 1) = w

\* the index of the closing quote of a string whose content starts at i;
\* 0 when there is none or a control character or backslash comes first
RECURSIVE ClosingQuote(_, _)
ClosingQuote(s, i) ==
    IF i > Len(s) THEN 0
    ELSE IF s[i] = 34 THEN i
    ELSE IF s[i] < 32 \/ s[i] = 92 THEN 0
    ELSE ClosingQuote(s, i + 1)

\* s[i] = '"': the str up to the closing quote
ScanString(s, i) ==
    LET q == ClosingQuote(s, i + 1)
    IN  IF q = 0 THEN Fail(i) ELSE Done(PyStr(SubSeq(s, i + 1, q - 1)), q + 1)

\* the end (exclusive) of the run of digits starting at i
RECURSIVE DigitsEnd(_, _)
DigitsEnd(s, i) ==
    IF i <= Len(s) /\ s[i] \in Digits THEN DigitsEnd(s, i + 1) ELSE i

\* the value of the digits s[i..j-1]
RECURSIVE DigitsValue(_, _, _, _)
DigitsValue(s, i, j, acc) ==
    IF i >= j THEN acc ELSE DigitsValue(s, i + 1, j, 10 * acc + (s[i] - 48))

\* the number regex -?(0|[1-9][0-9]*) at position i
ScanNumber(s, i) ==
    LET neg == i <= Len(s) /\ s[i] = 45
        d   == IF neg THEN i + 1 ELSE i
        e   == IF d <= Len(s) /\ s[d] = 48 THEN d + 1 ELSE DigitsEnd(s, d)
        n   == DigitsValue(s, d, e, 0)
    IN  IF e = d THEN Fail(i) ELSE Done(PyInt(IF neg THEN 0 - n ELSE n), e)

RECURSIVE ScanValue(_, _)
RECURSIVE ScanMembers(_, _, _)
RECURSIVE ScanElements(_, _, _)

\* the members of an object from position i, which holds the opening quote
\* of a property name; items are the members read so far
ScanMembers(s, i, items) ==
    IF ~(i <= Len(s) /\ s[i] = 34) THEN Fail(i)
    ELSE
    LET key == ScanString(s, i)
        c   == SkipWs(s, key.pos)
    IN  IF ~key.ok THEN Fail(i)
        ELSE IF ~(c <= Len(s) /\ s[c] = 58) THEN Fail(c)
        ELSE
        LET x    == ScanValue(s, SkipWs(s, c + 1))
            e    == SkipWs(s, x.pos)
            more == SetItem(items, key.val.v, x.val)
        IN  IF ~x.ok THEN Fail(x.pos)
            ELSE IF e > Len(s) THEN Fail(e)
            ELSE IF s[e] = 125 THEN Done(PyDict(more), e + 1)
            ELSE IF s[e] = 44 THEN ScanMembers(s, SkipWs(s, e + 1), more)
            ELSE Fail(e)

\* the elements of an array from position i; items are the elements read so far
ScanElements(s, i, items) ==
    LET x    == ScanValue(s, i)
        e    == SkipWs(s, x.pos)
        more == Append(items, x.val)
    IN  IF ~x.ok THEN Fail(x.pos)
        ELSE IF e > Len(s) THEN Fail(e)
        ELSE IF s[e] = 93 THEN Done(PyList(more), e + 1)
        ELSE IF s[e] = 44 THEN ScanElements(s, SkipWs(s, e + 1), more)
        ELSE Fail(e)

\* scan_once: the value that starts at position i
ScanValue(s, i) ==
    IF i > Len(s) THEN Fail(i)
    ELSE IF s[i] = 34 THEN ScanString(s, i)
    ELSE IF s[i] = 123 THEN
        LET j == SkipWs(s, i + 1)
        IN  IF j <= Len(s) /\ s[j] = 125 THEN Done(PyDict(<<>>), j + 1)
            ELSE ScanMembers(s, j, <<>>)
    ELSE IF s[i] = 91 THEN
        LET j == SkipWs(s, i + 1)
        IN  IF j <= Len(s) /\ s[j] = 93 THEN Done(PyList(<<>>), j + 1)
            ELSE ScanElements(s, j, <<>>)
    ELSE IF StartsWith(s, i, <<110, 117, 108, 108>>) THEN Done(PyNone, i + 4)
    ELSE IF StartsWith(s, i, <<116, 114, 117, 101>>) THEN Done(PyBool(TRUE), i + 4)
    ELSE IF StartsWith(s, i, <<102, 97, 108, 115, 101>>) THEN Done(PyBool(FALSE), i + 5)
    ELSE ScanNumber(s, i)

\* json.loads(s): [ok |-> TRUE, val |-> the value], or ok = FALSE for
\* JSONDecodeError (no value, or extra data after it)
loads(s) ==
    LET x == ScanValue(s, SkipWs(s, 1))
    IN  IF ~x.ok THEN Fail(x.pos)
        ELSE IF SkipWs(s, x.pos) <= Len(s) THEN Fail(x.pos)
        ELSE x

----------------------------------------------------------------------------
(* json.dumps with the default separators ", " and ": "                     *)

RECURSIVE NatText(_)
NatText(n) ==
    IF n < 10 THEN << 48 + n >> ELSE Append(NatText(n \div 10), 48 + (n % 10))

IntText(n) == IF n < 0 THEN << 45 >> \o NatText(0 - n) ELSE NatText(n)

Quoted(s) == << 34 >> \o s \o << 34 >>

RECURSIVE dumps(_)
RECURSIVE DumpItems(_, _)
RECURSIVE DumpElements(_, _)

DumpItems(items, i) ==
    IF i > Len(items) THEN <<>>
    ELSE (IF i > 1 THEN << 44, 32 >> ELSE <<>>)
         \o Quoted(items[i].k) \o << 58, 32 >> \o dumps(items[i].v)
         \o DumpItems(items, i + 1)

DumpElements(items, i) ==
    IF i > Len(items) THEN <<>>
    ELSE (IF i > 1 THEN << 44, 32 >> ELSE <<>>) \o dumps(items[i])
         \o DumpElements(items, i + 1)

dumps(x) ==
    CASE x.t = "dict" -> << 123 >> \o DumpItems(x.v, 1) \o << 125 >>
      [] x.t = "list" -> << 91 >> \o DumpElements(x.v, 1) \o << 93 >>
      [] x.t = "str" -> Quoted(x.v)
      [] x.t = "int" -> IntText(x.v)
      [] x.t = "bool" -> IF x.v THEN << 116, 114, 117, 101 >> ELSE << 102, 97, 108, 115, 101 >>
      [] x.t = "NoneType" -> << 110, 117, 108, 108 >>

----------------------------------------------------------------------------
(* The str literals of the program *)

K_error == Str("error")
K_system == Str("system")
K_get_sysinfo == Str("get_sysinfo")
K_relay_state == Str("relay_state")
K_set_relay_state == Str("set_relay_state")
K_state == Str("state")
K_emeter == Str("emeter")
K_get_realtime == Str("get_realtime")
K_set_led_off == Str("set_led_off")
K_off == Str("off")
K_reboot == Str("reboot")
K_delay == Str("delay")
K_result == Str("result")
K_devices == Str("devices")
K_err_code == Str("err_code")

\* {"error": message}
ErrorDict(message) == Dict1(K_error, PyStr(message))

----------------------------------------------------------------------------
(* tplink_protocol.py: send_command.                                        *)
(* net is what the network does to this call: [kind, data], where kind is   *)
(* the first socket call that fails ("connect_timeout", "connect_error",    *)
(* "send_error", "recv_timeout", "recv_error") or "recv" when sock.recv     *)
(* returns, data being every byte the peer has sent by then.                *)

\* the bufsize of sock.recv
RecvBufSize == 4096

\* str(e) of an OSError and of a JSONDecodeError: the text is not modelled
\* beyond being a message
OSErrorText == Str("[Errno 111] Connection refused")
JSONDecodeErrorText == Str("Expecting value: line 1 column 1 (char 0)")

\* data = sock.recv(4096), the peer having sent the bytes sent
recv(sent) ==
    SubSeq(sent, 1, IF Len(sent) < RecvBufSize THEN Len(sent) ELSE RecvBufSize)

\* how the try block ends, encrypted being the frame built from the command
\* and response what json.loads makes of the decrypted reply
TryBlockEnd(net, encrypted, response) ==
    CASE net.kind \in {"connect_timeout", "recv_timeout"} ->
            [exc |-> "socket.timeout", val |-> PyNone, sock |-> "open", sent |-> encrypted]
      [] net.kind \in {"connect_error", "send_error", "recv_error"} ->
            [exc |-> "socket.error", val |-> PyNone, sock |-> "open", sent |-> encrypted]
      [] net.kind = "recv" /\ ~response.ok ->
            [exc |-> "json.JSONDecodeError", val |-> PyNone, sock |-> "closed", sent |-> encrypted]
      [] net.kind = "recv" /\ response.ok ->
            [exc |-> "none", val |-> response.val, sock |-> "closed", sent |-> encrypted]

\* the body of the try block: [exc, val, sock, sent]: exc is the exception
\* that leaves the block ("none" when it returns val), sock is "closed" when
\* sock.close() was reached and "open" when the socket was left open, sent
\* is the frame:
\*   json_cmd = json.dumps(command); encrypted = encrypt(json_cmd); ...
\*   data = sock.recv(4096); sock.close(); decrypted = decrypt(data[4:])
\*   response = json.loads(decrypted); return response
TryBlock(cmd, net) ==
    TryBlockEnd(net, encrypt(dumps(cmd)), loads(decrypt(SliceFrom(recv(net.data), 4))))

ExceptClauses_socketOnly(exc) ==
    CASE exc = "socket.timeout" ->
            [raised |-> "none", val |-> ErrorDict(Str("Connection timeout"))]
      [] exc = "socket.error" ->
            [raised |-> "none", val |-> ErrorDict(Str("Socket error: ") \o OSErrorText)]
      [] OTHER ->
            [raised |-> exc, val |-> PyNone]

\* the except clauses, in order: what send_command does with exception exc
ExceptClauses(exc) ==
    CASE exc = "socket.timeout" ->
            [raised |-> "none", val |-> ErrorDict(Str("Connection timeout"))]
      [] exc = "socket.error" ->
            [raised |-> "none", val |-> ErrorDict(Str("Socket error: ") \o OSErrorText)]
      [] exc = "json.JSONDecodeError" ->
            [raised |-> "none", val |-> ErrorDict(Str("JSON decode error: ") \o JSONDecodeErrorText)]
      [] OTHER ->
            [raised |-> "none", val |-> ErrorDict(Str("Unexpected error: ") \o Str(exc))]

\* what send_command does once the try block has ended as body
AfterTry(body) ==
    IF body.exc = "none"
    THEN [raised |-> "none", val |-> body.val, sock |-> body.sock, sent |-> body.sent]
    ELSE [raised |-> ExceptClauses(body.exc).raised, val |-> ExceptClauses(body.exc).val,
          sock |-> body.sock, sent |-> body.sent]

\* send_command(ip, port, command): [raised, val, sock, sent]: raised is the
\* exception that reaches the caller ("none" when val is returned)
send_command(cmd, net) == AfterTry(TryBlock(cmd, net))

----------------------------------------------------------------------------
(* kasa_controller.py: KasaDevice *)

\* the command dicts of turn_on, turn_off, get_info, get_emeter_realtime,
\* set_led(state) and reboot(delay)
turn_on_command == Dict1(K_system, Dict1(K_set_relay_state, Dict1(K_state, PyInt(1))))
turn_off_command == Dict1(K_system, Dict1(K_set_relay_state, Dict1(K_state, PyInt(0))))
get_info_command == Dict1(K_system, Dict1(K_get_sysinfo, PyDict(<<>>)))
get_emeter_realtime_command == Dict1(K_emeter, Dict1(K_get_realtime, PyDict(<<>>)))
set_led_command_direct(state) ==
    Dict1(K_system, Dict1(K_set_led_off, Dict1(K_off, PyInt(IF state THEN 1 ELSE 0))))

set_led_command(state) ==
    Dict1(K_system, Dict1(K_set_led_off, Dict1(K_off, PyInt(IF state THEN 0 ELSE 1))))
reboot_command(delay) == Dict1(K_system, Dict1(K_reboot, Dict1(K_delay, PyInt(delay))))

\* w occurs in s as a substring
IsSubstring(w, s) == \E i \in 1..(Len(s) - Len(w) + 1) : SubSeq(s, i, i + Len(w) - 1) = w

\* Python's  k in x  for a str k: "yes", "no", or "TypeError" when x is not
\* a container
Contains(x, k) ==
    CASE x.t = "dict" -> IF HasKey(x, k) THEN "yes" ELSE "no"
      [] x.t = "list" ->
            IF \E i \in 1..Len(x.v) : x.v[i].t = "str" /\ x.v[i].v = k THEN "yes" ELSE "no"
      [] x.t = "str" -> IF IsSubstring(k, x.v) THEN "yes" ELSE "no"
      [] OTHER -> "TypeError"

\* Python's  x[k]  for a str k: [exc, val]; KeyError when a dict lacks k,
\* TypeError when x is not a dict
Subscript(x, k) ==
    IF x.t = "dict"
    THEN IF HasKey(x, k) THEN [exc |-> "none", val |-> Lookup(x, k)]
                         ELSE [exc |-> "KeyError", val |-> PyNone]
    ELSE [exc |-> "TypeError", val |-> PyNone]

\* Python's  x == 1 : an int 1 or the bool True
EqualsOne(x) == (x.t = "int" /\ x.v = 1) \/ (x.t = "bool" /\ x.v = TRUE)

\* get_state, given what self.get_info() returned: [raised, val], raised
\* being the exception that leaves get_state ("none" when it returns val)
get_state(info) ==
    LET system      == Subscript(info, K_system)
        get_sysinfo == Subscript(system.val, K_get_sysinfo)
        relay_state == Subscript(get_sysinfo.val, K_relay_state)
        firstExc    == IF system.exc # "none" THEN system.exc
                       ELSE IF get_sysinfo.exc # "none" THEN get_sysinfo.exc
                       ELSE relay_state.exc
    IN  CASE Contains(info, K_error) = "TypeError" -> [raised |-> "TypeError", val |-> PyNone]
          [] Contains(info, K_error) = "yes" -> [raised |-> "none", val |-> info]
          [] OTHER ->
                CASE firstExc = "none" ->
                        [raised |-> "none",
                         val |-> Dict2(K_state,
                                       PyStr(IF EqualsOne(relay_state.val) THEN Str("on") ELSE Str("off")),
                                       K_relay_state, relay_state.val)]
                  [] firstExc = "KeyError" ->
                        [raised |-> "none",
                         val |-> ErrorDict(Str("Could not parse relay state from response"))]
                  [] OTHER -> [raised |-> firstExc, val |-> PyNone]

----------------------------------------------------------------------------
(* The codec exercised on bounded inputs *)

\* every code point a one-character str can hold that fits a byte
Byte == 0..255

\* the characters appended after the first one
Alphabet == {0, 123, 171, 255}

\* no run of main is in progress
CliIdle ==
    /\ argv = <<>>
    /\ pc = "idle"
    /\ stdout = <<>>
    /\ exitcode = -1
    /\ current = PyNone
    /\ result = PyNone
    /\ calls = <<>>
    /\ leaked = 0
    /\ relay = 0

\* no call of discover_devices is in progress
DiscoveryIdle ==
    /\ dpc = "idle"
    /\ timeout = 0
    /\ sock = "none"
    /\ bound = "none"
    /\ round = 0
    /\ target = 1
    /\ attempts = 0
    /\ sendFailed = FALSE
    /\ elapsed = 0
    /\ broke = FALSE
    /\ received = {}
    /\ discovered = {}
    /\ devices = PyNone

\* no call of scan_subnet is in progress
ScanIdle ==
    /\ spc = "idle"
    /\ scanStart = 1
    /\ scanEnd = 0
    /\ network = [h \in 1..MaxHosts |-> "closed"]
    /\ nextHost = 1
    /\ task = [h \in 1..MaxHosts |-> "none"]
    /\ checks = [h \in 1..MaxHosts |-> 0]
    /\ completed = 0
    /\ found = <<>>
    /\ waited = FALSE

CodecInit ==
    /\ plain \in {<<>>, command} \cup {<<b>> : b \in Byte}
    /\ frame = <<>>
    /\ decoded = <<>>
    /\ cstep = "input"
    /\ garbled = <<>> /\ garbledAt = 0 /\ garbledDecoded = <<>>
    /\ CliIdle
    /\ DiscoveryIdle
    /\ ScanIdle

\* the caller grows the plaintext by one character
AppendChar ==
    /\ cstep = "input"
    /\ Len(plain) >= 1
    /\ Len(plain) < MaxLen
    /\ \E c \in Alphabet : plain' = Append(plain, c)
    /\ UNCHANGED <<frame, decoded, cstep, garbled, garbledAt, garbledDecoded>>
    /\ UNCHANGED <<cliVars, relay, discVars, scanVars>>

\* frame = encrypt(plain)
Encrypt ==
    /\ cstep = "input"
    /\ frame' = encrypt(plain)
    /\ cstep' = "encrypted"
    /\ UNCHANGED <<plain, decoded, garbled, garbledAt, garbledDecoded>>
    /\ UNCHANGED <<cliVars, relay, discVars, scanVars>>

\* decoded = decrypt(frame[4:]), as send_command does with what it received
Decrypt ==
    /\ cstep = "encrypted"
    /\ decoded' = decrypt(SliceFrom(frame, 4))
    /\ cstep' = "decrypted"
    /\ UNCHANGED <<plain, frame, garbled, garbledAt, garbledDecoded>>
    /\ UNCHANGED <<cliVars, relay, discVars, scanVars>>

\* what a transmission error does to one byte: the bits it flips
BitErrors == {1, 128, 255}

\* data with the byte at position i (from 1) XORed with mask
FlipByte(data, i, mask) == [data EXCEPT ![i] = Xor(data[i], mask)]

\* one byte of the body is changed in transit and the receiver decrypts the
\* changed body: decrypt(data[4:])
Garble ==
    /\ cstep = "decrypted"
    /\ \E i \in 1..Len(SliceFrom(frame, 4)), mask \in BitErrors :
          /\ garbled' = FlipByte(SliceFrom(frame, 4), i, mask)
          /\ garbledAt' = i
          /\ garbledDecoded' = decrypt(FlipByte(SliceFrom(frame, 4), i, mask))
    /\ cstep' = "garbled"
    /\ UNCHANGED <<plain, frame, decoded>>
    /\ UNCHANGED <<cliVars, relay, discVars, scanVars>>

CodecNext == AppendChar \/ Encrypt \/ Decrypt \/ Garble

SpecCodec == CodecInit /\ [][CodecNext]_vars

----------------------------------------------------------------------------
(* Claims about the codec *)

\* C1: for every plaintext of code points 0..255, the empty one included,
\* decrypt applied to the body of encrypt(P) (header stripped) returns P.
C1_RoundTrip == cstep = "decrypted" => decoded = plain

C1_Witness ==
    /\ cstep = "decrypted"
    /\ Len(plain) = 3
    /\ plain[1] = 200
    /\ plain[2] = 255
    /\ decoded = plain

\* the ciphertext of the fixture under the autokey cipher with key 171
FixtureBody ==
    << 208, 242, 129, 248, 139, 255, 154, 247, 213, 239, 148, 182, 209, 180, 192,
       159, 236, 149, 230, 143, 225, 135, 232, 202, 240, 139, 246, 139, 246 >>

\* C2: encrypt(P) is a 4-byte big-endian header holding the plaintext length
\* followed by body bytes c[i] = c[i-1] XOR p[i] with c[0] = 171; the empty
\* plaintext gives a zero header and no body; the fixture gives 33 bytes whose
\* body is the known ciphertext.
C2_ReferenceFrame ==
    cstep # "input" =>
        /\ Len(frame) = 4 + Len(plain)
        /\ \A i \in 1..4 : frame[i] \in Byte
        /\ frame[1] * 16777216 + frame[2] * 65536 + frame[3] * 256 + frame[4] = Len(plain)
        /\ \A i \in 1..Len(plain) :
              frame[4 + i] = Xor(IF i = 1 THEN 171 ELSE frame[4 + i - 1], plain[i])
        /\ (plain = <<>> => frame = <<0, 0, 0, 0>>)
        /\ (plain = command => Len(frame) = 33 /\ SliceFrom(frame, 4) = FixtureBody)

C2_Witness ==
    /\ cstep = "encrypted"
    /\ plain = command
    /\ frame = <<0, 0, 0, 29>> \o FixtureBody

----------------------------------------------------------------------------
(* The peer: a smart plug listening on ip:9999, or whatever else answers    *)
(* there. An honest plug decodes the frame, applies the command and replies *)
(* {module: {method: {"err_code": 0, ...}}}.                                *)

\* the request a plug reads from the frame the client sent
PlugRequest(wire) == loads(decrypt(SliceFrom(wire, 4)))

\* the first key of a dict and the value under it
FirstKey(d) == d.v[1].k
FirstValue(d) == d.v[1].v

\* a request of the shape {module: {method: args}}
WellFormedRequest(req) ==
    /\ req.ok /\ IsDict(req.val) /\ Len(req.val.v) = 1
    /\ IsDict(FirstValue(req.val)) /\ Len(FirstValue(req.val).v) = 1
    /\ IsDict(FirstValue(FirstValue(req.val)))

\* the relay after the plug has applied request req
PlugRelayAfter(r, req) ==
    IF /\ WellFormedRequest(req)
       /\ FirstKey(req.val) = K_system
       /\ FirstKey(FirstValue(req.val)) = K_set_relay_state
       /\ HasKey(FirstValue(FirstValue(req.val)), K_state)
    THEN Lookup(FirstValue(FirstValue(req.val)), K_state).v
    ELSE r

\* what an honest plug whose relay is r puts under {module: {method: ...}}
PlugPayload(r, module, method) ==
    IF module = K_system /\ method = K_get_sysinfo
    THEN Dict2(K_err_code, PyInt(0), K_relay_state, PyInt(r))
    ELSE Dict1(K_err_code, PyInt(0))

\* the frame an honest plug whose relay is r sends back for request req
PlugReply(r, req) ==
    IF WellFormedRequest(req)
    THEN encrypt(dumps(Dict1(FirstKey(req.val),
                             Dict1(FirstKey(FirstValue(req.val)),
                                   PlugPayload(r, FirstKey(req.val),
                                               FirstKey(FirstValue(req.val)))))))
    ELSE encrypt(Str("{\"err_code\": -1}"))

\* replies of a peer that is not an honest plug
OddTexts ==
    { Str(""), Str("[]"), Str("7"), Str("null"), Str("\"error\""), Str("[\"error\"]"),
      Str("{}"), Str("{\"system\":{}}"), Str("{\"system\":{\"get_sysinfo\":{}}}"),
      Str("{\"system\":null}"), Str("{\"system\":{\"get_sysinfo\":{\"relay_state\":true}}}"),
      Str("{\"error\":\"busy\"}"), Str("{\"system\":{\"get_sysinfo\"") }

OddFrames == { encrypt(t) : t \in OddTexts }

\* how many bytes of the reply sock.recv may return when it returns early
CutPoints == {0, 3, 4, 5, 20}

NetFailures == {"connect_timeout", "connect_error", "send_error", "recv_timeout", "recv_error"}

\* what can happen to one call of send_command: [net, relay], the network's
\* behaviour and the relay afterwards; r is the relay before, after the
\* relay once the plug has applied the command, reply the plug's reply
ExchangesWith(r, after, reply) ==
    \* the connection is never made
    { [net |-> [kind |-> k, data |-> <<>>], relay |-> r] :
        k \in {"connect_timeout", "connect_error"} }
    \cup
    \* the frame may or may not have reached the plug
    { [net |-> [kind |-> k, data |-> <<>>], relay |-> x] :
        k \in {"send_error", "recv_timeout", "recv_error"}, x \in {r, after} }
    \cup
    \* an honest plug; recv may return a prefix of its reply
    { [net |-> [kind |-> "recv", data |-> d], relay |-> after] :
        d \in {reply} \cup { SubSeq(reply, 1, n) : n \in CutPoints } }
    \cup
    { [net |-> [kind |-> "recv", data |-> d], relay |-> r] : d \in OddFrames }

ExchangesOn(r, req) == ExchangesWith(r, PlugRelayAfter(r, req), PlugReply(PlugRelayAfter(r, req), req))

Exchanges(cmd, r) == ExchangesOn(r, PlugRequest(encrypt(dumps(cmd))))

\* str.lower() on ASCII text
lower(s) == [i \in 1..Len(s) |-> IF s[i] \in 65..90 THEN s[i] + 32 ELSE s[i]]

\* int(s) for a str of an optional sign and decimal digits: [ok, val];
\* ok = FALSE is ValueError
int(s) ==
    LET signed == Len(s) >= 1 /\ s[1] \in {43, 45}
        d      == IF signed THEN 2 ELSE 1
    IN  IF d <= Len(s) /\ DigitsEnd(s, d) = Len(s) + 1
        THEN [ok |-> TRUE,
              val |-> IF signed /\ s[1] = 45 THEN 0 - DigitsValue(s, d, Len(s) + 1, 0)
                      ELSE DigitsValue(s, d, Len(s) + 1, 0)]
        ELSE [ok |-> FALSE, val |-> 0]

\* the delay arguments given to the reboot verb
RebootDelayArgs == { Str("5"), Str("soon") }

\* every command dict main can hand to send_command
Commands ==
    { turn_on_command, turn_off_command, get_info_command, get_emeter_realtime_command,
      set_led_command(TRUE), set_led_command(FALSE), reboot_command(1) }
    \cup { reboot_command(int(a).val) : a \in { b \in RebootDelayArgs : int(b).ok } }

\* every call of send_command that can happen: the command, the relay
\* before and after, the network's behaviour, and what send_command does
Calls ==
    UNION { { [cmd |-> c, before |-> r, net |-> x.net, after |-> x.relay,
               ret |-> send_command(c, x.net)] : x \in Exchanges(c, r) } :
            c \in Commands, r \in {0, 1} }

\* the calls of send_command(c) possible when the relay is r
CallsOf(c, r) == { e \in Calls : e.cmd = c /\ e.before = r }

----------------------------------------------------------------------------
(* kasa_controller.py: discover_devices *)

broadcast_addresses ==
    << Str("255.255.255.255"), Str("192.168.1.255"), Str("192.168.0.255"),
       Str("192.168.255.255"), Str("10.0.255.255"), Str("10.255.255.255"),
       Str("172.16.255.255"), Str("100.64.255.255") >>

\* range(5): the send rounds
SendRounds == 5

\* sock.settimeout(1.0), in seconds
RecvTimeout == 1

\* the bufsize of sock.recvfrom
RecvFromBufSize == 4096

\* if len(data) > 50
EchoThreshold == 50

\* who may send a datagram to the socket: a plug and this host (the echo)
Senders == { Str("192.168.1.50"), Str("192.168.1.2") }

\* the sizes of the datagrams sent to the socket; 33 is the echoed command
DatagramSizes == { Len(encrypt(command)), 50, 51, 5000 }

\* len(data) for a datagram of n bytes read with recvfrom(4096)
DataLen(n) == IF n < RecvFromBufSize THEN n ELSE RecvFromBufSize

\* {"error": f"Discovery failed: {str(e)}"}
DiscoveryError == ErrorDict(Str("Discovery failed: ") \o OSErrorText)

\* list(s) of a set of str: the elements once each, in any order
ListsOf(s) ==
    { PyList([i \in 1..Cardinality(s) |-> PyStr(f[i])]) :
        f \in { g \in [1..Cardinality(s) -> s] :
                  \A i, j \in 1..Cardinality(s) : i # j => g[i] # g[j] } }

\* sock = socket.socket(...); setsockopt twice. An exception in any of them
\* reaches the outer except clause.
CreateSocket ==
    /\ dpc = "socket"
    /\ \/ /\ sock' = "open"
          /\ dpc' = "bind"
          /\ UNCHANGED devices
       \/ /\ sock' \in {"none", "open"}
          /\ devices' = DiscoveryError
          /\ dpc' = "done"
    /\ UNCHANGED <<codecVars, scanVars, cliVars, relay, timeout, bound, round, target, attempts,
                   sendFailed, elapsed, received, discovered, broke>>

\* sock.bind(('', 9999)); on OSError sock.bind(('', 0)), whose exception
\* reaches the outer except clause; then sock.settimeout(1.0)
Bind ==
    /\ dpc = "bind"
    /\ \/ /\ bound' \in {"9999", "any"}
          /\ dpc' = "send"
          /\ UNCHANGED devices
       \/ /\ devices' = DiscoveryError
          /\ dpc' = "done"
          /\ UNCHANGED bound
    /\ UNCHANGED <<codecVars, scanVars, cliVars, relay, timeout, sock, round, target, attempts,
                   sendFailed, elapsed, received, discovered, broke>>

SendTo_abandonRound ==
    /\ dpc = "send"
    /\ round < SendRounds
    /\ attempts' = attempts + 1
    /\ \E failed \in BOOLEAN :
          /\ sendFailed' = (sendFailed \/ failed)
          /\ IF target < Len(broadcast_addresses) /\ ~failed
             THEN /\ target' = target + 1
                  /\ UNCHANGED <<round, dpc>>
             ELSE /\ target' = 1
                  /\ round' = round + 1
                  /\ dpc' = IF round + 1 < SendRounds THEN "send" ELSE "listen"
    /\ UNCHANGED <<codecVars, scanVars, cliVars, relay, timeout, sock, bound, elapsed, received,
                   discovered, devices, broke>>

\* one sock.sendto(encrypted, (broadcast_addr, 9999)) of the nested loops;
\* an exception is swallowed (continue). After the last address of a round
\* comes time.sleep(0.2); after the last round, start_time = time.time().
SendTo ==
    /\ dpc = "send"
    /\ round < SendRounds
    /\ attempts' = attempts + 1
    /\ \E failed \in BOOLEAN : sendFailed' = (sendFailed \/ failed)
    /\ IF target < Len(broadcast_addresses)
       THEN /\ target' = target + 1
            /\ UNCHANGED <<round, dpc>>
       ELSE /\ target' = 1
            /\ round' = round + 1
            /\ dpc' = IF round + 1 < SendRounds THEN "send" ELSE "listen"
    /\ UNCHANGED <<codecVars, scanVars, cliVars, relay, timeout, sock, bound, elapsed, received,
                   discovered, devices, broke>>

\* the loop condition: time.time() - start_time < timeout
Listening == elapsed < timeout * TicksPerSecond

Collect_atLeast(sofar, addr, n) == IF n >= EchoThreshold THEN sofar \cup {addr} ELSE sofar

\* discovered after recvfrom returned n bytes from addr
Collect(sofar, addr, n) == IF n > EchoThreshold THEN sofar \cup {addr} ELSE sofar

\* one iteration of the while loop in which recvfrom returns a datagram,
\* less than the receive timeout after it was called
RecvDatagram ==
    /\ dpc = "listen"
    /\ Listening
    /\ Cardinality(received) < MaxDatagrams
    /\ \E addr \in Senders, size \in DatagramSizes, wait \in 0..(RecvTimeout * TicksPerSecond - 1) :
          /\ received' = received \cup {[addr |-> addr, len |-> DataLen(size)]}
          /\ discovered' = Collect(discovered, addr, DataLen(size))
          /\ elapsed' = elapsed + wait
    /\ UNCHANGED <<codecVars, scanVars, cliVars, relay, dpc, timeout, sock, bound, round, target,
                   attempts, sendFailed, devices, broke>>

RecvTimedOut_restartsClock ==
    /\ dpc = "listen"
    /\ Listening
    /\ elapsed' = 0
    /\ UNCHANGED <<codecVars, scanVars, cliVars, relay, dpc, timeout, sock, bound, round, target,
                   attempts, sendFailed, received, discovered, devices, broke>>

\* one iteration in which recvfrom raises socket.timeout: continue
RecvTimedOut ==
    /\ dpc = "listen"
    /\ Listening
    /\ elapsed' = elapsed + RecvTimeout * TicksPerSecond
    /\ UNCHANGED <<codecVars, scanVars, cliVars, relay, dpc, timeout, sock, bound, round, target,
                   attempts, sendFailed, received, discovered, devices, broke>>

\* one iteration in which recvfrom raises another exception: break
RecvFailed ==
    /\ dpc = "listen"
    /\ Listening
    /\ broke' = TRUE
    /\ dpc' = "close"
    /\ UNCHANGED <<codecVars, scanVars, cliVars, relay, timeout, sock, bound, round, target,
                   attempts, sendFailed, elapsed, received, discovered, devices>>

\* the loop condition is false
StopListening ==
    /\ dpc = "listen"
    /\ ~Listening
    /\ dpc' = "close"
    /\ UNCHANGED <<codecVars, scanVars, cliVars, relay, timeout, sock, bound, round, target,
                   attempts, sendFailed, elapsed, received, discovered, devices, broke>>

\* sock.close(); return list(discovered)
CloseAndReturn ==
    /\ dpc = "close"
    /\ sock' = "closed"
    /\ devices' \in ListsOf(discovered)
    /\ dpc' = "done"
    /\ UNCHANGED <<codecVars, scanVars, cliVars, relay, timeout, bound, round, target, attempts,
                   sendFailed, elapsed, received, discovered, broke>>

(* kasa_api.py: main *)

\* the dict printed when no command is given
UsageDict ==
    PyDict(<< [k |-> K_error, v |-> PyStr(Str("No command specified"))],
              [k |-> Str("usage"), v |-> PyStr(Str("kasa_api.py <command> [args...]"))],
              [k |-> Str("commands"), v |->
                  PyDict(<< [k |-> Str("discover"), v |-> PyStr(Str("Discover devices on network"))],
                            [k |-> Str("info"), v |-> PyStr(Str("Get device info (requires ip)"))],
                            [k |-> Str("state"), v |-> PyStr(Str("Get device state (requires ip)"))],
                            [k |-> Str("on"), v |-> PyStr(Str("Turn device on (requires ip)"))],
                            [k |-> Str("off"), v |-> PyStr(Str("Turn device off (requires ip)"))],
                            [k |-> Str("toggle"), v |-> PyStr(Str("Toggle device state (requires ip)"))],
                            [k |-> Str("emeter"), v |-> PyStr(Str("Get energy meter data (requires ip)"))],
                            [k |-> Str("led"), v |-> PyStr(Str("Set LED state (requires ip, state)"))],
                            [k |-> Str("reboot"), v |-> PyStr(Str("Reboot device (requires ip)"))] >>)] >>)

\* command = sys.argv[1].lower()
Verb == lower(argv[2])

\* print(json.dumps(x)); sys.exit(code), or falling off the end of main
\* with code 0
PrintAndExit(x, code) ==
    /\ stdout' = Append(stdout, dumps(x))
    /\ exitcode' = code
    /\ pc' = "exit"

\* the handler of main: except Exception as e: print {"error": str(e)}; sys.exit(1)
\* (str(e) is modelled by the exception's name)
ExceptionHandler(exc) == PrintAndExit(ErrorDict(Str(exc)), 1)

\* one call e of send_command: the logs, the socket count and the plug
Called(e) ==
    /\ calls' = Append(calls, e)
    /\ leaked' = leaked + (IF e.ret.sock = "open" THEN 1 ELSE 0)
    /\ relay' = e.after

\* if len(sys.argv) < 2: print the usage; sys.exit(1)
NoCommand ==
    /\ pc = "start"
    /\ Len(argv) < 2
    /\ PrintAndExit(UsageDict, 1)
    /\ UNCHANGED <<codecVars, scanVars, discVars, argv, current, result, calls, leaked, relay>>

\* the verbs that take the device's address
DeviceVerbs ==
    { Str("info"), Str("state"), Str("on"), Str("off"), Str("toggle"), Str("emeter"),
      Str("led"), Str("reboot") }

\* the branches' argument checks: if len(sys.argv) < 3 (led: < 4): print; sys.exit(1)
MissingArgument ==
    /\ pc = "start"
    /\ Len(argv) >= 2
    /\ Verb \in DeviceVerbs
    /\ IF Verb = Str("led")
       THEN /\ Len(argv) < 4
            /\ PrintAndExit(ErrorDict(Str("IP address and state (on/off) required")), 1)
       ELSE /\ Len(argv) < 3
            /\ PrintAndExit(ErrorDict(Str("IP address required")), 1)
    /\ UNCHANGED <<codecVars, scanVars, discVars, argv, current, result, calls, leaked, relay>>

\* else: print {"error": "Unknown command: ..."}; sys.exit(1)
UnknownCommand ==
    /\ pc = "start"
    /\ Len(argv) >= 2
    /\ Verb \notin DeviceVerbs \cup {Str("discover")}
    /\ PrintAndExit(ErrorDict(Str("Unknown command: ") \o Verb), 1)
    /\ UNCHANGED <<codecVars, scanVars, discVars, argv, current, result, calls, leaked, relay>>

\* result = <one request>; print(json.dumps(result)), r being what the
\* request did
PrintReply(r) ==
    IF r.raised # "none"
    THEN ExceptionHandler(r.raised) /\ UNCHANGED result
    ELSE result' = r.val /\ PrintAndExit(r.val, 0)

\* info: result = device.get_info(); print(json.dumps(result))
Info ==
    /\ pc = "start" /\ Len(argv) >= 3 /\ Verb = Str("info")
    /\ \E e \in CallsOf(get_info_command, relay) :
          /\ Called(e)
          /\ PrintReply(e.ret)
    /\ UNCHANGED <<codecVars, scanVars, discVars, argv, current>>

\* device.get_state(): get_info (which returned info), then its mapping
GetState(info) ==
    IF info.raised # "none" THEN [raised |-> info.raised, val |-> PyNone]
    ELSE get_state(info.val)

\* state: result = device.get_state(); print(json.dumps(result))
State ==
    /\ pc = "start" /\ Len(argv) >= 3 /\ Verb = Str("state")
    /\ \E e \in CallsOf(get_info_command, relay) :
          /\ Called(e)
          /\ PrintReply(GetState(e.ret))
    /\ UNCHANGED <<codecVars, scanVars, discVars, argv, current>>

\* on / off: result = device.turn_on() / device.turn_off()
Switch ==
    /\ pc = "start" /\ Len(argv) >= 3 /\ Verb \in {Str("on"), Str("off")}
    /\ LET cmd == IF Verb = Str("on") THEN turn_on_command ELSE turn_off_command
       IN  \E e \in CallsOf(cmd, relay) :
              LET r == e.ret
              IN  /\ Called(e)
                  /\ IF r.raised # "none"
                     THEN ExceptionHandler(r.raised) /\ UNCHANGED result
                     ELSE /\ result' = r.val
                          /\ pc' = "read_back"
                          /\ UNCHANGED <<stdout, exitcode>>
    /\ UNCHANGED <<codecVars, scanVars, discVars, argv, current>>

\* toggle: current = device.get_state(); if "error" in current: print; sys.exit(1)
ToggleRead ==
    /\ pc = "start" /\ Len(argv) >= 3 /\ Verb = Str("toggle")
    /\ \E e \in CallsOf(get_info_command, relay) :
          LET r == GetState(e.ret)
          IN  /\ Called(e)
              /\ IF r.raised # "none"
                 THEN ExceptionHandler(r.raised) /\ UNCHANGED current
                 ELSE /\ current' = r.val
                      /\ CASE Contains(r.val, K_error) = "TypeError" ->
                                  ExceptionHandler("TypeError")
                           [] Contains(r.val, K_error) = "yes" ->
                                  PrintAndExit(r.val, 1)
                           [] OTHER ->
                                  pc' = "toggle_switch" /\ UNCHANGED <<stdout, exitcode>>
    /\ UNCHANGED <<codecVars, scanVars, discVars, argv, result>>

\* current.get("relay_state") == 1, for the dict get_state returned
RelayStateIsOne(cur) ==
    IsDict(cur) /\ HasKey(cur, K_relay_state) /\ EqualsOne(Lookup(cur, K_relay_state))

ToggleCommand_same(cur) == IF RelayStateIsOne(cur) THEN turn_on_command ELSE turn_off_command

\* the command toggle sends: turn_off when the state read is 1, else turn_on
ToggleCommand(cur) == IF RelayStateIsOne(cur) THEN turn_off_command ELSE turn_on_command

\* toggle: result = device.turn_off() or device.turn_on()
ToggleSwitch ==
    /\ pc = "toggle_switch"
    /\ LET cmd == ToggleCommand(current)
       IN  \E e \in CallsOf(cmd, relay) :
              LET r == e.ret
              IN  /\ Called(e)
                  /\ IF r.raised # "none"
                     THEN ExceptionHandler(r.raised) /\ UNCHANGED result
                     ELSE /\ result' = r.val
                          /\ pc' = "read_back"
                          /\ UNCHANGED <<stdout, exitcode>>
    /\ UNCHANGED <<codecVars, scanVars, discVars, argv, current>>

\* on, off, toggle: state = device.get_state();
\* print(json.dumps({"result": result, "state": state}))
ReadBack ==
    /\ pc = "read_back"
    /\ \E e \in CallsOf(get_info_command, relay) :
          LET r == GetState(e.ret)
          IN  /\ Called(e)
              /\ IF r.raised # "none"
                 THEN ExceptionHandler(r.raised)
                 ELSE PrintAndExit(Dict2(K_result, result, K_state, r.val), 0)
    /\ UNCHANGED <<codecVars, scanVars, discVars, argv, current, result>>

\* emeter: result = device.get_emeter_realtime(); print(json.dumps(result))
Emeter ==
    /\ pc = "start" /\ Len(argv) >= 3 /\ Verb = Str("emeter")
    /\ \E e \in CallsOf(get_emeter_realtime_command, relay) :
          /\ Called(e)
          /\ PrintReply(e.ret)
    /\ UNCHANGED <<codecVars, scanVars, discVars, argv, current>>

\* state = sys.argv[3].lower() in ["on", "1", "true"]
LedState == lower(argv[4]) \in {Str("on"), Str("1"), Str("true")}

\* led: result = device.set_led(state); print(json.dumps(result))
Led ==
    /\ pc = "start" /\ Len(argv) >= 4 /\ Verb = Str("led")
    /\ \E e \in CallsOf(set_led_command(LedState), relay) :
          /\ Called(e)
          /\ PrintReply(e.ret)
    /\ UNCHANGED <<codecVars, scanVars, discVars, argv, current>>

\* reboot: delay = int(sys.argv[3]) if len(sys.argv) > 3 else 1;
\* result = device.reboot(delay); print(json.dumps(result))
Reboot ==
    /\ pc = "start" /\ Len(argv) >= 3 /\ Verb = Str("reboot")
    /\ LET delay == IF Len(argv) > 3 THEN int(argv[4]) ELSE [ok |-> TRUE, val |-> 1]
       IN  IF ~delay.ok
           THEN /\ ExceptionHandler("ValueError")
                /\ UNCHANGED <<result, calls, leaked, relay>>
           ELSE \E e \in CallsOf(reboot_command(delay.val), relay) :
                   /\ Called(e)
                   /\ PrintReply(e.ret)
    /\ UNCHANGED <<codecVars, scanVars, discVars, argv, current>>

\* discover: timeout = int(sys.argv[2]) if len(sys.argv) > 2 else 3;
\* devices = discover_devices(timeout)
DiscoverCall ==
    /\ pc = "start" /\ Len(argv) >= 2 /\ Verb = Str("discover")
    /\ LET t == IF Len(argv) > 2 THEN int(argv[3]) ELSE [ok |-> TRUE, val |-> 3]
       IN  IF ~t.ok
           THEN /\ ExceptionHandler("ValueError")
                /\ UNCHANGED <<dpc, timeout>>
           ELSE /\ timeout' = t.val
                /\ dpc' = "socket"
                /\ pc' = "discover"
                /\ UNCHANGED <<stdout, exitcode>>
    /\ UNCHANGED <<codecVars, scanVars, argv, current, result, calls, leaked, relay,
                   sock, bound, round, target, attempts, sendFailed, elapsed, broke,
                   received, discovered, devices>>

\* discover: print(json.dumps({"devices": devices}))
DiscoverReturn ==
    /\ pc = "discover"
    /\ dpc = "done"
    /\ PrintAndExit(Dict1(K_devices, devices), 0)
    /\ UNCHANGED <<codecVars, scanVars, discVars, argv, current, result, calls, leaked, relay>>

----------------------------------------------------------------------------
(* One invocation of the command line *)

ProgramName == Str("kasa_api.py")
Address == Str("192.168.1.50")

VerbWords ==
    DeviceVerbs \cup {Str("discover"), Str("Toggle"), Str("STATE"), Str("status")}

ArgvChoices ==
    { <<ProgramName>> }
    \cup { <<ProgramName, v>> : v \in VerbWords }
    \cup { <<ProgramName, v, Address>> : v \in VerbWords }
    \cup { <<ProgramName, Str("led"), Address, a>> :
             a \in {Str("on"), Str("ON"), Str("1"), Str("True"), Str("off"), Str("yes")} }
    \cup { <<ProgramName, Str("reboot"), Address, a>> : a \in RebootDelayArgs }
    \cup { <<ProgramName, Str("discover"), a>> : a \in {Str("0"), Str("1"), Str("-1")} }

Init ==
    /\ plain = <<>> /\ frame = <<>> /\ decoded = <<>> /\ cstep = "unused"
    /\ garbled = <<>> /\ garbledAt = 0 /\ garbledDecoded = <<>>
    /\ argv \in ArgvChoices
    /\ pc = "start"
    /\ stdout = <<>>
    /\ exitcode = -1
    /\ current = PyNone
    /\ result = PyNone
    /\ calls = <<>>
    /\ leaked = 0
    /\ relay \in {0, 1}
    /\ DiscoveryIdle
    /\ ScanIdle

Next ==
    \/ NoCommand
    \/ MissingArgument
    \/ UnknownCommand
    \/ Info
    \/ State
    \/ Switch
    \/ ToggleRead
    \/ ToggleSwitch
    \/ ReadBack
    \/ Emeter
    \/ Led
    \/ Reboot
    \/ DiscoverCall
    \/ CreateSocket
    \/ Bind
    \/ SendTo
    \/ RecvDatagram
    \/ RecvTimedOut
    \/ RecvFailed
    \/ StopListening
    \/ CloseAndReturn
    \/ DiscoverReturn

Spec == Init /\ [][Next]_vars

\* Each socket call of discover_devices returns: socket, setsockopt, bind and
\* sendto do not block, time.sleep(0.2) ends, and after settimeout(1.0) a
\* recvfrom returns a datagram or raises socket.timeout within a second. That
\* recvfrom raises another error is possible, never required.
DiscoveryFairness ==
    /\ WF_vars(CreateSocket)
    /\ WF_vars(Bind)
    /\ WF_vars(SendTo)
    /\ WF_vars(RecvDatagram \/ RecvTimedOut)
    /\ WF_vars(StopListening)
    /\ WF_vars(CloseAndReturn)

SpecLive == Init /\ [][Next]_vars /\ DiscoveryFairness

----------------------------------------------------------------------------
(* scan_network.py: check_port and scan_subnet *)

\* ThreadPoolExecutor(max_workers=50)
max_workers == 50

\* what a host can do when its port is checked: "closed" (connect_ex gives a
\* non-zero code), "error" (a socket call raises before the connection is
\* made), "responding" (the port is open and more than 4 bytes come back),
\* "silent" (the port is open and recv raises or returns at most 4 bytes)
HostKinds == {"closed", "error", "responding", "silent"}

\* the value None
NoResult == [none |-> TRUE, ip |-> 0, responding |-> FALSE]

\* check_port(ip) for a host of the given kind: a dict or None
check_port(h, kind) ==
    CASE kind = "responding" -> [none |-> FALSE, ip |-> h, responding |-> TRUE]
      [] kind = "silent"     -> [none |-> FALSE, ip |-> h, responding |-> FALSE]
      [] OTHER               -> NoResult

\* if result: a non-empty dict is true, None is false
Truthy(r) == ~r.none

Gather_always(list, r) == Append(list, r)

\* if result: found.append(result)
Gather(list, r) == IF Truthy(r) THEN Append(list, r) ELSE list

\* range(start, end + 1)
ScanRange == scanStart..scanEnd

Running == { h \in 1..MaxHosts : task[h] = "running" }
Queued == { h \in 1..MaxHosts : task[h] = "queued" }

\* the executor's work queue is first in, first out
NextQueued == CHOOSE h \in Queued : \A g \in Queued : h <= g

\* The hosts whose checks end, and are handed over by as_completed, at any
\* moment relative to all others. The checks of the remaining hosts end in
\* the order they began and are handed over in that order.
FreeOrder == {1, MaxHosts}

EarlierOrdered(h) == { g \in ScanRange : g < h /\ g \notin FreeOrder }

\* executor.submit(check_port, ip, port, timeout) for the next i: a worker
\* takes the task at once when fewer than max_workers are busy, else it waits
\* in the queue
Submit ==
    /\ spc = "submit"
    /\ nextHost <= scanEnd
    /\ IF Cardinality(Running) < max_workers
       THEN /\ task' = [task EXCEPT ![nextHost] = "running"]
            /\ checks' = [checks EXCEPT ![nextHost] = @ + 1]
            /\ UNCHANGED waited
       ELSE /\ task' = [task EXCEPT ![nextHost] = "queued"]
            /\ waited' = TRUE
            /\ UNCHANGED checks
    /\ nextHost' = nextHost + 1
    /\ UNCHANGED <<spc, scanStart, scanEnd, network, completed, found>>
    /\ UNCHANGED <<codecVars, cliVars, relay, discVars>>

\* the submit loop is over; completed = 0
AllSubmitted ==
    /\ spc = "submit"
    /\ nextHost > scanEnd
    /\ spc' = "collect"
    /\ UNCHANGED <<scanStart, scanEnd, network, nextHost, task, checks, completed, found, waited>>
    /\ UNCHANGED <<codecVars, cliVars, relay, discVars>>

\* a worker's check_port returns; the worker takes the next queued task
FinishCheck ==
    /\ spc \in {"submit", "collect"}
    /\ \E h \in Running :
          /\ h \in FreeOrder \/ \A g \in EarlierOrdered(h) : task[g] \in {"finished", "yielded"}
          /\ IF Queued = {}
             THEN /\ task' = [task EXCEPT ![h] = "finished"]
                  /\ UNCHANGED checks
             ELSE /\ task' = [task EXCEPT ![h] = "finished", ![NextQueued] = "running"]
                  /\ checks' = [checks EXCEPT ![NextQueued] = @ + 1]
    /\ UNCHANGED <<spc, scanStart, scanEnd, network, nextHost, completed, found, waited>>
    /\ UNCHANGED <<codecVars, cliVars, relay, discVars>>

\* one iteration of  for future in as_completed(futures):  completed += 1;
\* result = future.result(); if result: found.append(result)
Collected ==
    /\ spc = "collect"
    /\ \E h \in ScanRange :
          /\ task[h] = "finished"
          /\ h \in FreeOrder \/ \A g \in EarlierOrdered(h) : task[g] = "yielded"
          /\ task' = [task EXCEPT ![h] = "yielded"]
          /\ found' = Gather(found, check_port(h, network[h]))
    /\ completed' = completed + 1
    /\ UNCHANGED <<spc, scanStart, scanEnd, network, nextHost, checks, waited>>
    /\ UNCHANGED <<codecVars, cliVars, relay, discVars>>

\* as_completed is exhausted; the with block ends; return found
ScanReturn ==
    /\ spc = "collect"
    /\ \A h \in ScanRange : task[h] = "yielded"
    /\ spc' = "done"
    /\ UNCHANGED <<scanStart, scanEnd, network, nextHost, task, checks, completed, found, waited>>
    /\ UNCHANGED <<codecVars, cliVars, relay, discVars>>

\* the arguments start and end
ScanRanges == { <<1, MaxHosts>>, <<1, 2>>, <<2, 2>>, <<3, 2>> }

\* the networks scanned
Networks ==
    { [h \in 1..MaxHosts |->
          CASE h = 1 -> "responding" [] h = 2 -> "silent" [] h = 3 -> "error"
            [] h = MaxHosts -> "responding" [] OTHER -> "closed"],
      [h \in 1..MaxHosts |->
          CASE h = 2 -> "responding" [] h = 10 -> "silent" [] h = 11 -> "responding"
            [] OTHER -> "closed"] }

ScanInit ==
    /\ plain = <<>> /\ frame = <<>> /\ decoded = <<>> /\ cstep = "unused"
    /\ garbled = <<>> /\ garbledAt = 0 /\ garbledDecoded = <<>>
    /\ CliIdle
    /\ DiscoveryIdle
    /\ spc = "submit"
    /\ \E r \in ScanRanges : scanStart = r[1] /\ scanEnd = r[2]
    /\ network \in Networks
    /\ nextHost = scanStart
    /\ task = [h \in 1..MaxHosts |-> "none"]
    /\ checks = [h \in 1..MaxHosts |-> 0]
    /\ completed = 0
    /\ found = <<>>
    /\ waited = FALSE

ScanNext == Submit \/ AllSubmitted \/ FinishCheck \/ Collected \/ ScanReturn

SpecScan == ScanInit /\ [][ScanNext]_vars

----------------------------------------------------------------------------
(* Claims about send_command *)

\* the reply of call c, as received, does not parse as JSON
ReplyUnparsable(c) ==
    c.net.kind = "recv" /\ ~loads(decrypt(SliceFrom(recv(c.net.data), 4))).ok

\* a non-empty str
IsMessage(x) == x.t = "str" /\ Len(x.v) > 0

\* C3: send_command never raises to its caller; when the connect or the read
\* times out, a socket error occurs, or the decoded reply does not parse as
\* JSON (a reply of fewer than 5 bytes included), it returns a mapping with
\* the key "error" holding a message.
C3_ErrorsAreReturned ==
    \A i \in 1..Len(calls) :
        /\ calls[i].ret.raised = "none"
        /\ (\/ calls[i].net.kind \in NetFailures
            \/ ReplyUnparsable(calls[i])
            \/ (calls[i].net.kind = "recv" /\ Len(calls[i].net.data) < 5))
           => /\ IsDict(calls[i].ret.val)
              /\ HasKey(calls[i].ret.val, K_error)
              /\ IsMessage(Lookup(calls[i].ret.val, K_error))

C3_Witness ==
    /\ Len(calls) = 3
    /\ calls[1].net.kind = "recv" /\ Len(calls[1].net.data) > 20
    /\ calls[2].net.kind = "connect_timeout"
    /\ HasKey(calls[2].ret.val, K_error)
    /\ calls[3].net.kind = "recv" /\ Len(calls[3].net.data) = 4
    /\ HasKey(calls[3].ret.val, K_error)

\* C4: every value send_command returns is a mapping, whatever bytes the
\* peer replies with, so that get_state can test "error" in it and index it
\* by key without failing.
C4_AlwaysMapping ==
    \A i \in 1..Len(calls) :
        calls[i].ret.raised = "none" =>
            /\ IsDict(calls[i].ret.val)
            /\ Contains(calls[i].ret.val, K_error) # "TypeError"

----------------------------------------------------------------------------
(* Claims about main *)

\* the value of call i is a mapping with the key "error"
ErrorResponse(i) == IsDict(calls[i].ret.val) /\ HasKey(calls[i].ret.val, K_error)

\* a required argument is absent
ArgumentMissing ==
    \/ Len(argv) < 2
    \/ Verb \in DeviceVerbs /\ Len(argv) < (IF Verb = Str("led") THEN 4 ELSE 3)

\* C5: the process exit code is 1 whenever the underlying operation yields an
\* error response or a required argument is absent, for every verb; it is 0
\* only when the operation completed.
C5_ExitOneOnError ==
    pc = "exit" =>
        /\ ArgumentMissing => exitcode = 1
        /\ (\E i \in 1..Len(calls) : ErrorResponse(i)) => exitcode = 1
        /\ (dpc = "done" /\ IsDict(devices)) => exitcode = 1

\* the verb is toggle and the first state read returned relay_state n
ToggleRead_returned(n) ==
    /\ Len(argv) >= 3 /\ Verb = Str("toggle")
    /\ IsDict(current) /\ ~HasKey(current, K_error) /\ HasKey(current, K_relay_state)
    /\ Lookup(current, K_relay_state).t = "int"
    /\ Lookup(current, K_relay_state).v = n

\* the commands of the calls made so far
Requests == [i \in 1..Len(calls) |-> calls[i].cmd]

\* {"system": {"set_relay_state": {"state": n}}}
SetRelayState(n) == Dict1(K_system, Dict1(K_set_relay_state, Dict1(K_state, PyInt(n))))

\* the relay_state under system.get_sysinfo of a reply x that holds one
ReportedRelay(x) == Lookup(Lookup(Lookup(x, K_system), K_get_sysinfo), K_relay_state)

\* x is a reply {"system": {"get_sysinfo": {"relay_state": ..., ...}}}
HoldsRelay(x) ==
    /\ IsDict(x) /\ ~HasKey(x, K_error) /\ HasKey(x, K_system)
    /\ IsDict(Lookup(x, K_system)) /\ HasKey(Lookup(x, K_system), K_get_sysinfo)
    /\ IsDict(Lookup(Lookup(x, K_system), K_get_sysinfo))
    /\ HasKey(Lookup(Lookup(x, K_system), K_get_sysinfo), K_relay_state)

\* the one line written, parsed back
Printed == loads(stdout[1]).val

\* C6: toggle sends the command opposite to the state it read (state 0
\* after reading relay_state 1, state 1 after reading relay_state 0); the
\* requests are exactly get_sysinfo, set_relay_state, get_sysinfo; the state
\* reported comes from the last read, made after the command.
C6_ToggleOpposite ==
    \A n \in {0, 1} :
        ToggleRead_returned(n) =>
            /\ Len(calls) >= 2 => calls[2].cmd = SetRelayState(1 - n)
            /\ pc = "exit" =>
                  /\ Requests = << get_info_command, SetRelayState(1 - n), get_info_command >>
                  /\ Len(stdout) = 1
                  /\ HasKey(Printed, K_state) =>
                        /\ Lookup(Printed, K_result) = calls[2].ret.val
                        /\ HoldsRelay(calls[3].ret.val) =>
                              /\ HasKey(Lookup(Printed, K_state), K_relay_state)
                              /\ Lookup(Lookup(Printed, K_state), K_relay_state)
                                    = ReportedRelay(calls[3].ret.val)
                        /\ ErrorResponse(3) => Lookup(Printed, K_state) = calls[3].ret.val

C6_Witness ==
    /\ ToggleRead_returned(1)
    /\ pc = "exit"
    /\ exitcode = 0
    /\ calls[2].cmd = turn_off_command
    /\ calls[2].net.kind = "recv"
    /\ HoldsRelay(calls[3].ret.val)
    /\ ReportedRelay(calls[3].ret.val) = PyInt(0)
    /\ relay = 0

\* C7: get_state maps the get_sysinfo reply: relay_state 1 gives state "on",
\* relay_state 0 gives state "off", a reply in which relay_state or an
\* enclosing system / get_sysinfo key is absent gives an explicit error
\* result, and an error response is returned unchanged. The replies are
\* those that are mappings.
C7_GetStateMapping ==
    (Len(argv) >= 3 /\ Verb = Str("state") /\ pc = "exit" /\ IsDict(calls[1].ret.val)) =>
        LET info == calls[1].ret.val
        IN  /\ HasKey(info, K_error) => result = info
            /\ (HoldsRelay(info) /\ ReportedRelay(info) = PyInt(1)) =>
                  result = Dict2(K_state, PyStr(Str("on")), K_relay_state, PyInt(1))
            /\ (HoldsRelay(info) /\ ReportedRelay(info) = PyInt(0)) =>
                  result = Dict2(K_state, PyStr(Str("off")), K_relay_state, PyInt(0))
            /\ (~HasKey(info, K_error) /\ ~HoldsRelay(info)) =>
                  /\ IsDict(result)
                  /\ HasKey(result, K_error)
                  /\ IsMessage(Lookup(result, K_error))
                  /\ ~HasKey(result, K_state)

\* C10: every invocation writes exactly one JSON object to standard output.
C10_OneJsonObject ==
    pc = "exit" =>
        /\ Len(stdout) = 1
        /\ loads(stdout[1]).ok
        /\ IsDict(loads(stdout[1]).val)

----------------------------------------------------------------------------
(* Claims about discover_devices *)

\* the addresses of a returned list
Addresses(x) == { x.v[i].v : i \in 1..Len(x.v) }

\* C8: the result of discover_devices is exactly the set of the source
\* addresses of the datagrams longer than 50 bytes received while listening,
\* each once: no sender of a datagram of at most 50 bytes only, every sender
\* of a longer one.
C8_ExactlyLongSenders ==
    dpc = "done" =>
        IF devices.t = "list"
        THEN /\ Addresses(devices) = { d.addr : d \in { e \in received : e.len > 50 } }
             /\ \A i, j \in 1..Len(devices.v) : i # j => devices.v[i] # devices.v[j]
        ELSE received = {}

C8_Witness ==
    /\ dpc = "done"
    /\ devices = PyList(<< PyStr(Str("192.168.1.50")) >>)
    /\ received = { [addr |-> Str("192.168.1.2"), len |-> 50],
                    [addr |-> Str("192.168.1.50"), len |-> 51],
                    [addr |-> Str("192.168.1.50"), len |-> 4096] }

\* C9: a socket error other than a receive timeout raised while receiving
\* aborts the loop and makes the result an error mapping, not a list of
\* addresses; a receive timeout alone never ends the loop before the overall
\* timeout.
C9_RecvErrorIsErrorResult ==
    /\ (dpc = "done" /\ broke) => (IsDict(devices) /\ HasKey(devices, K_error))
    /\ (dpc = "close" /\ ~broke) => elapsed >= timeout * TicksPerSecond

----------------------------------------------------------------------------
(* Claims about the LED *)

\* the off field of the set_led_off command sent by call i
LedOffSent(i) == Lookup(Lookup(Lookup(calls[i].cmd, K_system), K_set_led_off), K_off)

\* the state arguments that spell on, 1 or true in some letter case
SpellsOn == { Str("on"), Str("ON"), Str("On"), Str("1"), Str("true"), Str("True"), Str("TRUE") }

\* C11: the led verb sends system.set_led_off with off = 0 when the state
\* argument is "on", "1" or "true" in any letter case (set_led(True)) and
\* with off = 1 for every other argument (set_led(False)).
C11_LedInverted ==
    (Len(argv) >= 4 /\ Verb = Str("led") /\ Len(calls) >= 1) =>
        /\ Len(calls) = 1
        /\ calls[1].cmd = Dict1(K_system, Dict1(K_set_led_off, Dict1(K_off, LedOffSent(1))))
        /\ argv[4] \in SpellsOn => LedOffSent(1) = PyInt(0)
        /\ argv[4] \notin SpellsOn => LedOffSent(1) = PyInt(1)

C11_Witness ==
    /\ Len(argv) >= 4 /\ Verb = Str("led") /\ pc = "exit"
    /\ argv[4] = Str("True")
    /\ Len(calls) = 1
    /\ LedOffSent(1) = PyInt(0)
    /\ calls[1].net.kind = "recv"

----------------------------------------------------------------------------
(* Claims about the send rounds of discover_devices *)

\* C12: discover_devices attempts a send to each of the 8 broadcast targets
\* in each of 5 rounds, 40 attempts, in order, before the first datagram is
\* received; a failed send neither skips a later target or round nor makes
\* the result an error.
C12_AllTargetsEveryRound ==
    /\ Len(broadcast_addresses) = 8
    /\ dpc = "send" => (round \in 0..4 /\ target \in 1..8 /\ attempts = 8 * round + (target - 1))
    /\ dpc \in {"listen", "close"} => attempts = 40
    /\ (dpc = "done" /\ bound # "none") => attempts = 40
    /\ received # {} => attempts = 40
    /\ (dpc = "done" /\ sendFailed) => devices.t = "list"

C12_Witness ==
    /\ dpc = "done"
    /\ sendFailed
    /\ attempts = 40
    /\ received # {}
    /\ devices = PyList(<< PyStr(Str("192.168.1.50")) >>)

----------------------------------------------------------------------------
(* Claims about the termination of discover_devices *)

\* C13: discover_devices always returns, whatever datagrams and receive
\* timeouts occur: once called it reaches its return; the loop is left once
\* the overall timeout has elapsed, at most one receive timeout (1 second)
\* late; with a timeout <= 0 nothing is received.
C13_AlwaysReturns ==
    /\ (dpc = "socket") ~> (dpc = "done")
    /\ [](dpc = "close" /\ ~broke => elapsed >= timeout * TicksPerSecond)
    /\ [](timeout > 0 => elapsed < (timeout + 1) * TicksPerSecond)
    /\ [](timeout <= 0 => (elapsed = 0 /\ received = {}))

C13_Witness ==
    /\ dpc = "done"
    /\ timeout = 1
    /\ ~broke
    /\ received # {}
    /\ elapsed > timeout * TicksPerSecond
    /\ devices.t = "list"

----------------------------------------------------------------------------
(* Claims about errors in the ciphertext *)

\* the positions at which the two decrypt outputs differ
DifferAt == { j \in 1..Len(decoded) : garbledDecoded[j] # decoded[j] }

\* C14: if two ciphertext bodies differ only in byte i, their decrypt
\* outputs differ at position i and at every later position.
C14_ErrorCascades ==
    cstep = "garbled" =>
        /\ Len(garbledDecoded) = Len(decoded)
        /\ \A j \in garbledAt..Len(decoded) : j \in DifferAt

\* C14, as the code has it: if two ciphertext bodies differ only in byte i,
\* their decrypt outputs differ at position i and, when there is one, at
\* position i + 1, and agree everywhere else: the error does not cascade.
C14_ErrorTouchesTwo ==
    cstep = "garbled" =>
        /\ Len(garbledDecoded) = Len(decoded)
        /\ DifferAt = {garbledAt, garbledAt + 1} \cap (1..Len(decoded))

C14_Witness ==
    /\ cstep = "garbled"
    /\ plain = command
    /\ garbledAt = 5
    /\ \A j \in 1..Len(garbled) : (garbled[j] # frame[4 + j]) <=> (j = 5)
    /\ DifferAt = {5, 6}
    /\ Len(decoded) = 29

----------------------------------------------------------------------------
(* Claims about scan_subnet *)

\* how many entries of found are for host h
EntriesFor(h) == Cardinality({ i \in 1..Len(found) : found[i].ip = h })

\* C15: scan_subnet checks every host of start..end exactly once, with at
\* most 50 checks running at the same time; whatever the order in which the
\* checks end, the list returned holds exactly one entry for each host whose
\* check returned a result and none for a host whose check returned None.
C15_ScanExactlyOnce ==
    /\ Cardinality(Running) <= 50
    /\ \A h \in 1..MaxHosts : checks[h] <= 1
    /\ spc = "done" =>
          /\ \A h \in 1..MaxHosts :
                checks[h] = IF scanStart <= h /\ h <= scanEnd THEN 1 ELSE 0
          /\ \A h \in 1..MaxHosts :
                EntriesFor(h) = IF /\ scanStart <= h /\ h <= scanEnd
                                   /\ network[h] \in {"responding", "silent"}
                                THEN 1 ELSE 0
          /\ \A i \in 1..Len(found) : ~found[i].none
          /\ completed = Cardinality(ScanRange)

C15_Witness ==
    /\ spc = "done"
    /\ scanStart = 1 /\ scanEnd = MaxHosts
    /\ waited
    /\ Len(found) = 3
    /\ found[1].ip = MaxHosts
    /\ found[2].ip = 2
    /\ found[3].ip = 1

----------------------------------------------------------------------------
(* Claims about sockets *)

\* C16: every socket opened by send_command or discover_devices has been
\* closed by the time the call returns, on every path.
C16_SocketsClosed ==
    /\ \A i \in 1..Len(calls) : calls[i].ret.sock = "closed"
    /\ leaked = 0
    /\ dpc = "done" => sock \in {"none", "closed"}

====
